---------------------------- MODULE Spec2Model ----------------------------
(***************************************************************************)
(* A model of the eqstochsim formula library (src/eqstochsim/eqphysics.py  *)
(* and src/eqstochsim/models.py).                                          *)
(*                                                                         *)
(* Numbers.  Every function of the library is one arithmetic expression    *)
(* over Python floats and NumPy arrays.  The model evaluates the same      *)
(* expressions, operator by operator, over exact symbolic reals:           *)
(*                                                                         *)
(*    fin   c * pi^pi * ln(10)^ln * rb^re    (c, rb, re rational)          *)
(*    log   a + b * log10(x)                 (a, b rational, x a fin > 0)  *)
(*    inf, ninf, nan                         (the IEEE-754 specials)       *)
(*    cplx                                   (a Python complex number)     *)
(*    exc                                    (a raised exception)          *)
(*    arr                                    (a NumPy array of the above)  *)
(*    none                                   (Python's None)               *)
(*                                                                         *)
(* Every number carries the flag np: FALSE for a builtin Python float or   *)
(* int, TRUE for a NumPy scalar or array element.  The flag decides what a *)
(* zero divisor or a fractional power of a negative base does.  Rounding,  *)
(* the sign of zero and the finite range of a double are outside the       *)
(* model: arithmetic on fin values is exact.                               *)
(***************************************************************************)
EXTENDS Integers, Sequences, FiniteSets

VARIABLES pc, fn, args, ret, prior, heap, th

vars == <<pc, fn, args, ret, prior, heap, th>>

---------------------------------------------------------------------------
(* Rational numbers n/d in lowest terms, d > 0.                            *)

Abs(i) == IF i < 0 THEN -i ELSE i

RECURSIVE Gcd(_, _)
Gcd(a, b) == IF b = 0 THEN a ELSE Gcd(b, a % b)

Rat(n, d) ==
    LET g == Gcd(Abs(n), Abs(d))
        s == IF d < 0 THEN -1 ELSE 1
    IN  [n |-> s * (n \div g), d |-> s * (d \div g)]

Zero == Rat(0, 1)
One == Rat(1, 1)
Ten == Rat(10, 1)

RNeg(x) == [n |-> -x.n, d |-> x.d]

RAdd(x, y) ==
    LET g == Gcd(x.d, y.d)
    IN  Rat(x.n * (y.d \div g) + y.n * (x.d \div g), (x.d \div g) * y.d)

RSub(x, y) == RAdd(x, RNeg(y))

RMul(x, y) ==
    LET g1 == Gcd(Abs(x.n), y.d)
        g2 == Gcd(Abs(y.n), x.d)
    IN  Rat((x.n \div g1) * (y.n \div g2), (x.d \div g2) * (y.d \div g1))

RInv(x) == Rat(x.d, x.n)

RDiv(x, y) == RMul(x, RInv(y))

RLe(x, y) == x.n * y.d <= y.n * x.d

RLt(x, y) == x.n * y.d < y.n * x.d

RECURSIVE RPowNat(_, _)
RPowNat(x, k) == IF k = 0 THEN One ELSE RMul(x, RPowNat(x, k - 1))

RPow(x, k) == IF k >= 0 THEN RPowNat(x, k) ELSE RPowNat(RInv(x), -k)

RECURSIVE IntLog10(_)
\* k with i = 10^k, or -1 when the positive integer i is no power of ten
IntLog10(i) ==
    IF i = 1 THEN 0
    ELSE IF i % 10 # 0 THEN -1
    ELSE LET r == IntLog10(i \div 10) IN IF r < 0 THEN -1 ELSE r + 1

IsPow10(x) ==
    /\ x.n > 0
    /\ \/ x.d = 1 /\ IntLog10(x.n) >= 0
       \/ x.n = 1 /\ IntLog10(x.d) >= 0

RLog10(x) == IF x.d = 1 THEN Rat(IntLog10(x.n), 1) ELSE Rat(-IntLog10(x.d), 1)

---------------------------------------------------------------------------
(* Values.                                                                 *)

\* c * pi^p * ln(10)^l * rb^re in normal form: a zero has no factors, a
\* radical with exponent 0 or base 1 is dropped, and an integer power of a
\* base other than ten is folded into the coefficient.
MkFin(c, p, l, rb, re, np) ==
    IF c.n = 0
    THEN [k |-> "fin", np |-> np, c |-> Zero, pi |-> 0, ln |-> 0,
          rb |-> One, re |-> Zero]
    ELSE IF re.n = 0 \/ rb = One
    THEN [k |-> "fin", np |-> np, c |-> c, pi |-> p, ln |-> l,
          rb |-> One, re |-> Zero]
    ELSE IF re.d = 1 /\ rb # Ten
    THEN [k |-> "fin", np |-> np, c |-> RMul(c, RPow(rb, re.n)), pi |-> p,
          ln |-> l, rb |-> One, re |-> Zero]
    ELSE [k |-> "fin", np |-> np, c |-> c, pi |-> p, ln |-> l,
          rb |-> rb, re |-> re]

Num(r, np) == MkFin(r, 0, 0, One, Zero, np)

\* a literal or an argument that is a builtin Python number
Py(n, d) == Num(Rat(n, d), FALSE)

\* the same number as a numpy.float64
Np(n, d) == Num(Rat(n, d), TRUE)

Inf(np) == [k |-> "inf", np |-> np]
NInf(np) == [k |-> "ninf", np |-> np]
NaN(np) == [k |-> "nan", np |-> np]
Cplx == [k |-> "cplx", np |-> FALSE]
None == [k |-> "none"]
Exc(name, msg) == [k |-> "exc", exc |-> name, msg |-> msg]
Arr(s) == [k |-> "arr", v |-> s]

IsExc(v) == v.k = "exc"
IsArr(v) == v.k = "arr"
IsFin(v) == v.k = "fin"
IsRational(v) == v.k = "fin" /\ v.pi = 0 /\ v.ln = 0 /\ v.re.n = 0
IsZero(v) == v.k = "fin" /\ v.c.n = 0
IsInfinite(v) == v.k \in {"inf", "ninf"}
\* math.isfinite / numpy.isfinite of a real number
IsFinite(v) == v.k \in {"fin", "log"}
IsNonFinite(v) == v.k \in {"inf", "ninf", "nan"}

\* the value without the Python/NumPy flag
Strip(v) ==
    IF v.k = "arr" THEN Arr([i \in DOMAIN v.v |-> [v.v[i] EXCEPT !.np = FALSE]])
    ELSE IF v.k \in {"exc", "none"} THEN v
    ELSE [v EXCEPT !.np = FALSE]

AsNumpy(v) == [v EXCEPT !.np = TRUE]

---------------------------------------------------------------------------
(* The order of the finite reals a + b*log10(x) with x rational: decided   *)
(* exactly, by clearing denominators and comparing powers.                 *)

LinA(v) == IF v.k = "log" THEN v.a ELSE v.c
LinB(v) == IF v.k = "log" THEN v.b ELSE Zero
LinX(v) == IF v.k = "log" THEN v.x.c ELSE One

Lcm(a, b) == (a \div Gcd(a, b)) * b

\* v <= w for finite v, w
LeFinite(v, w) ==
    LET q == RSub(LinA(w), LinA(v))
        D == Lcm(Lcm(LinB(v).d, LinB(w).d), q.d)
        B1 == LinB(v).n * (D \div LinB(v).d)
        B2 == LinB(w).n * (D \div LinB(w).d)
        A == q.n * (D \div q.d)
    IN  RLe(RMul(RPow(LinX(v), B1), RPow(LinX(w), -B2)), RPow(Ten, A))

\* v <= w as IEEE-754 orders the reals and the infinities (nan is unordered)
Le(v, w) ==
    IF v.k = "nan" \/ w.k = "nan" THEN FALSE
    ELSE IF v.k = "ninf" \/ w.k = "inf" THEN TRUE
    ELSE IF v.k = "inf" \/ w.k = "ninf" THEN FALSE
    ELSE LeFinite(v, w)

Sign(v) ==
    IF v.k = "inf" THEN 1
    ELSE IF v.k = "ninf" THEN -1
    ELSE IF v.k = "fin" THEN (IF v.c.n > 0 THEN 1 ELSE IF v.c.n < 0 THEN -1 ELSE 0)
    ELSE IF LeFinite(v, Num(Zero, FALSE)) THEN -1 ELSE 1

SignedInf(s, np) == IF s = 0 THEN NaN(np) ELSE IF s > 0 THEN Inf(np) ELSE NInf(np)

---------------------------------------------------------------------------
(* The arithmetic operators of Python floats and NumPy, on scalars.        *)

ScaleLog(v, r, np) ==
    IF r.n = 0 THEN Num(Zero, np)
    ELSE [k |-> "log", np |-> np, a |-> RMul(v.a, r), b |-> RMul(v.b, r),
          x |-> v.x]

FinMul(a, b, np) ==
    LET rb == IF a.re.n = 0 THEN b.rb ELSE a.rb
        re == IF a.re.n = 0 THEN b.re
              ELSE IF b.re.n = 0 THEN a.re ELSE RAdd(a.re, b.re)
    IN  MkFin(RMul(a.c, b.c), a.pi + b.pi, a.ln + b.ln, rb, re, np)

FinInv(b) == MkFin(RInv(b.c), -b.pi, -b.ln, b.rb, RNeg(b.re), b.np)

FinPowInt(a, e, np) ==
    MkFin(RPow(a.c, e), a.pi * e, a.ln * e, a.rb, RMul(a.re, Rat(e, 1)), np)

\* unary minus
SNeg(a) ==
    IF a.k = "fin" THEN [a EXCEPT !.c = RNeg(a.c)]
    ELSE IF a.k = "log" THEN [a EXCEPT !.a = RNeg(a.a), !.b = RNeg(a.b)]
    ELSE IF a.k = "inf" THEN NInf(a.np)
    ELSE IF a.k = "ninf" THEN Inf(a.np)
    ELSE a

\* a * b
SMul(a, b) ==
    LET np == a.np \/ b.np IN
    IF a.k = "nan" \/ b.k = "nan" THEN NaN(np)
    ELSE IF a.k = "cplx" \/ b.k = "cplx" THEN Cplx
    ELSE IF IsInfinite(a) \/ IsInfinite(b) THEN SignedInf(Sign(a) * Sign(b), np)
    ELSE IF a.k = "log" THEN ScaleLog(a, b.c, np)
    ELSE IF b.k = "log" THEN ScaleLog(b, a.c, np)
    ELSE FinMul(a, b, np)

\* SDiv without Python's check for a zero divisor
SDivIeee(a, b) ==
    LET np == a.np \/ b.np IN
    IF IsZero(b)
    THEN IF a.k = "nan" THEN NaN(np) ELSE SignedInf(Sign(a), np)
    ELSE IF a.k = "nan" \/ b.k = "nan" THEN NaN(np)
    ELSE IF a.k = "cplx" THEN Cplx
    ELSE IF IsInfinite(a)
    THEN IF IsInfinite(b) THEN NaN(np) ELSE SignedInf(Sign(a) * Sign(b), np)
    ELSE IF IsInfinite(b) THEN Num(Zero, np)
    ELSE IF a.k = "log" THEN ScaleLog(a, RInv(b.c), np)
    ELSE FinMul(a, FinInv(b), np)

\* a / b: a zero divisor raises when both operands are builtin Python
\* numbers, and follows IEEE-754 when either is NumPy's
SDiv(a, b) ==
    LET np == a.np \/ b.np IN
    IF IsZero(b)
    THEN IF ~np THEN Exc("ZeroDivisionError", "float division by zero")
         ELSE IF a.k = "nan" THEN NaN(np) ELSE SignedInf(Sign(a), np)
    ELSE IF a.k = "nan" \/ b.k = "nan" THEN NaN(np)
    ELSE IF a.k = "cplx" THEN Cplx
    ELSE IF IsInfinite(a)
    THEN IF IsInfinite(b) THEN NaN(np) ELSE SignedInf(Sign(a) * Sign(b), np)
    ELSE IF IsInfinite(b) THEN Num(Zero, np)
    ELSE IF a.k = "log" THEN ScaleLog(a, RInv(b.c), np)
    ELSE FinMul(a, FinInv(b), np)

\* a + b
SAdd(a, b) ==
    LET np == a.np \/ b.np IN
    IF a.k = "nan" \/ b.k = "nan" THEN NaN(np)
    ELSE IF a.k = "cplx" \/ b.k = "cplx" THEN Cplx
    ELSE IF IsInfinite(a)
    THEN IF IsInfinite(b) /\ a.k # b.k THEN NaN(np) ELSE [a EXCEPT !.np = np]
    ELSE IF IsInfinite(b) THEN [b EXCEPT !.np = np]
    ELSE IF a.k = "log" THEN [a EXCEPT !.a = RAdd(a.a, b.c), !.np = np]
    ELSE IF b.k = "log" THEN [b EXCEPT !.a = RAdd(b.a, a.c), !.np = np]
    ELSE Num(RAdd(a.c, b.c), np)

\* a - b
SSub(a, b) == SAdd(a, SNeg(b))

\* a ** b and numpy.power(a, b), b a rational number
SPow(a, b) ==
    LET np == a.np \/ b.np
        e == b.c
    IN
    IF e.n = 0 THEN Num(One, np)
    ELSE IF a.k = "nan" THEN NaN(np)
    ELSE IF a.k = "cplx" THEN Cplx
    ELSE IF a.k = "inf" THEN (IF e.n > 0 THEN Inf(np) ELSE Num(Zero, np))
    ELSE IF a.k = "ninf"
    THEN IF e.n < 0 THEN Num(Zero, np)
         ELSE IF e.d = 1 /\ e.n % 2 = 1 THEN NInf(np) ELSE Inf(np)
    ELSE IF IsZero(a)
    THEN IF e.n > 0 THEN Num(Zero, np)
         ELSE IF ~np
         THEN Exc("ZeroDivisionError", "0.0 cannot be raised to a negative power")
         ELSE Inf(np)
    ELSE IF IsRational(a) /\ a.c = Ten THEN MkFin(One, 0, 0, Ten, e, np)
    ELSE IF e.d = 1 THEN FinPowInt(a, e.n, np)
    ELSE IF a.c.n < 0 THEN (IF ~np THEN Cplx ELSE NaN(np))
    ELSE MkFin(One, 0, 0, a.c, e, np)

\* numpy.log10(a): always a NumPy value
SLog10(a) ==
    IF a.k \in {"nan", "ninf"} THEN NaN(TRUE)
    ELSE IF a.k = "inf" THEN Inf(TRUE)
    ELSE IF IsZero(a) THEN NInf(TRUE)
    ELSE IF a.c.n < 0 THEN NaN(TRUE)
    ELSE IF a.c = One /\ a.pi = 0 /\ a.ln = 0 /\ a.rb = Ten THEN Num(a.re, TRUE)
    ELSE IF IsRational(a) /\ IsPow10(a.c) THEN Num(RLog10(a.c), TRUE)
    ELSE [k |-> "log", np |-> TRUE, a |-> Zero, b |-> One,
          x |-> [a EXCEPT !.np = FALSE]]

---------------------------------------------------------------------------
(* The same operators with Python's exception propagation (the left        *)
(* operand is evaluated first) and NumPy's broadcasting of a scalar over   *)
(* an array.  An array's elements are NumPy values.                        *)

\* the element a scalar or an array contributes at index i
Elem(a, i) == IF IsArr(a) THEN a.v[i] ELSE a

\* the index set of the broadcast of a and b, one of them an array
Shape(a, b) == IF IsArr(a) THEN DOMAIN a.v ELSE DOMAIN b.v

Mul(a, b) ==
    IF IsExc(a) THEN a
    ELSE IF IsExc(b) THEN b
    ELSE IF IsArr(a) \/ IsArr(b)
    THEN Arr([i \in Shape(a, b) |-> SMul(Elem(a, i), Elem(b, i))])
    ELSE SMul(a, b)

Div(a, b) ==
    IF IsExc(a) THEN a
    ELSE IF IsExc(b) THEN b
    ELSE IF IsArr(a) \/ IsArr(b)
    THEN Arr([i \in Shape(a, b) |-> SDiv(Elem(a, i), Elem(b, i))])
    ELSE SDiv(a, b)

Add(a, b) ==
    IF IsExc(a) THEN a
    ELSE IF IsExc(b) THEN b
    ELSE IF IsArr(a) \/ IsArr(b)
    THEN Arr([i \in Shape(a, b) |-> SAdd(Elem(a, i), Elem(b, i))])
    ELSE SAdd(a, b)

Sub(a, b) ==
    IF IsExc(a) THEN a
    ELSE IF IsExc(b) THEN b
    ELSE IF IsArr(a) \/ IsArr(b)
    THEN Arr([i \in Shape(a, b) |-> SSub(Elem(a, i), Elem(b, i))])
    ELSE SSub(a, b)

Pow(a, b) ==
    IF IsExc(a) THEN a
    ELSE IF IsExc(b) THEN b
    ELSE IF IsArr(a) \/ IsArr(b)
    THEN Arr([i \in Shape(a, b) |-> SPow(Elem(a, i), Elem(b, i))])
    ELSE SPow(a, b)

Neg(a) ==
    IF IsExc(a) THEN a
    ELSE IF IsArr(a) THEN Arr([i \in DOMAIN a.v |-> SNeg(a.v[i])])
    ELSE SNeg(a)

Log10(a) ==
    IF IsExc(a) THEN a
    ELSE IF IsArr(a) THEN Arr([i \in DOMAIN a.v |-> SLog10(a.v[i])])
    ELSE SLog10(a)

\* numpy.pi, a builtin Python float
Pi == MkFin(One, 1, 0, One, Zero, FALSE)

\* numpy.log(10), a numpy.float64
Ln10 == MkFin(One, 0, 1, One, Zero, TRUE)

---------------------------------------------------------------------------
(* eqphysics.py                                                            *)

\* return c * vs * (sd / mo)**(1 / 3)
fc(vs, sd_, mo, c) ==
    Mul(Mul(c, vs), Pow(Div(sd_, mo), Div(Py(1, 1), Py(3, 1))))

\* sd with the parentheses around k * vs lost
sd_ungrouped(fc_, mo, vs, k) ==
    Mul(Mul(Div(Py(7, 1), Py(16, 1)), mo),
        Pow(Mul(Div(fc_, k), vs), Py(3, 1)))

\* return (7 / 16) * mo * (fc / (k * vs))**3
sd(fc_, mo, vs, k) ==
    Mul(Mul(Div(Py(7, 1), Py(16, 1)), mo),
        Pow(Div(fc_, Mul(k, vs)), Py(3, 1)))

\* return 10**((3 / 2) * (mw + c))
mo_from_mw(mw_, c) ==
    Pow(Py(10, 1), Mul(Div(Py(3, 1), Py(2, 1)), Add(mw_, c)))

\* return (2 / 3) * np.log10(mo) + c
mw(mo, c) ==
    Add(Mul(Div(Py(2, 1), Py(3, 1)), Log10(mo)), c)

\* return np.log10((4 * np.pi * vs**3 * rho * ro) / (fs * rp))
moment_scaling(vs, rho, ro, fs, rp) ==
    Log10(Div(Mul(Mul(Mul(Mul(Py(4, 1), Pi), Pow(vs, Py(3, 1))), rho), ro),
              Mul(fs, rp)))

---------------------------------------------------------------------------
(* models.py                                                               *)

\* A str is the sequence of its characters.
LowerChar(ch) ==
    CASE ch = "A" -> "a" [] ch = "B" -> "b" [] ch = "C" -> "c"
      [] ch = "D" -> "d" [] ch = "E" -> "e" [] ch = "I" -> "i"
      [] ch = "L" -> "l" [] ch = "P" -> "p" [] ch = "S" -> "s"
      [] ch = "V" -> "v" [] OTHER -> ch

\* a case-sensitive match
LowerAsIs(s) == s

\* str.lower()
Lower(s) == [i \in DOMAIN s |-> LowerChar(s[i])]

disp == <<"d", "i", "s", "p">>
vel == <<"v", "e", "l">>
acc == <<"a", "c", "c">>

\* gms = ['disp', 'vel', 'acc']
gms == <<disp, vel, acc>>

Elems(s) == {s[i] : i \in DOMAIN s}

\* motion_factor falling back to the default option
motion_factor_defaulting(f, motion) ==
    IF Lower(motion) = vel
    THEN Log10(Mul(Mul(Py(2, 1), Pi), f))
    ELSE IF Lower(motion) = acc
    THEN Log10(Pow(Mul(Mul(Py(2, 1), Pi), f), Py(2, 1)))
    ELSE Py(0, 1)

motion_factor(f, motion) ==
    IF Lower(motion) \notin Elems(gms)
    THEN Exc("ValueError", <<"Motion must be ", gms>>)
    ELSE IF Lower(motion) = disp
    THEN Py(0, 1)
    ELSE IF Lower(motion) = vel
    THEN Log10(Mul(Mul(Py(2, 1), Pi), f))
    ELSE IF Lower(motion) = acc
    THEN Log10(Pow(Mul(Mul(Py(2, 1), Pi), f), Py(2, 1)))
    ELSE None

\* source_scf adding the falloff term
source_scf_plus(f, llpsp, fc_, gam, n) ==
    Add(llpsp,
        Mul(Div(Py(1, 1), gam),
            Log10(Add(Py(1, 1), Pow(Div(f, fc_), Mul(gam, n))))))

\* source_scf without the 1 + under the logarithm
source_scf_no_one(f, llpsp, fc_, gam, n) ==
    Sub(llpsp,
        Mul(Div(Py(1, 1), gam), Log10(Pow(Div(f, fc_), Mul(gam, n)))))

\* return llpsp - (1 / gam) * np.log10((1 + (f / fc)**(gam * n)))
source_scf(f, llpsp, fc_, gam, n) ==
    Sub(llpsp,
        Mul(Div(Py(1, 1), gam),
            Log10(Add(Py(1, 1), Pow(Div(f, fc_), Mul(gam, n))))))

\* return -(((np.pi * f * R) / (Q * b)) / np.log(10))
f_idep_attenutation(f, Q, R, b) ==
    Neg(Div(Div(Mul(Mul(Pi, f), R), Mul(Q, b)), Ln10))

\* 0 <= a <= 1
InUnitIntervalClosed(a) ==
    /\ a.k = "fin"
    /\ RLe(Zero, a.c)
    /\ RLe(a.c, One)

\* 0 <= a < 1
InUnitInterval(a) ==
    /\ a.k = "fin"
    /\ RLe(Zero, a.c)
    /\ RLt(a.c, One)

\* f_dep_attenuation dividing by b, as f_idep_attenutation does
f_dep_attenuation_grouped(f, a, Q, R, b) ==
    IF ~InUnitInterval(a)
    THEN Exc("AssertionError", "a must be in range 0 <= a < 1.")
    ELSE Neg(Div(Mul(Mul(Pi, Pow(f, Sub(Py(1, 1), a))), Div(R, Mul(Q, b))),
                 Ln10))

\* assert 0 <= a < 1, "a must be in range 0 <= a < 1."
\* return -(np.pi * (f**(1 - a)) * (R / Q * b) / np.log(10))
f_dep_attenuation(f, a, Q, R, b) ==
    IF ~InUnitInterval(a)
    THEN Exc("AssertionError", "a must be in range 0 <= a < 1.")
    ELSE Neg(Div(Mul(Mul(Pi, Pow(f, Sub(Py(1, 1), a))), Mul(Div(R, Q), b)),
                 Ln10))

\* return -p * np.log10(R)
single_geospreading(R, p) ==
    Mul(Neg(p), Log10(R))

---------------------------------------------------------------------------
(* Callers.  A call draws its arguments from the sets below, either all    *)
(* builtin Python floats or all numpy.float64 (np); a frequency array is   *)
(* always a NumPy array.                                                   *)

\* longest frequency array drawn
MaxLen == 2

\* the defaults of the signatures
fc_c_default == Rat(49, 100)
sd_k_default == Rat(37, 100)
mw_c_default == Rat(60333, 10000)

Freqs == {Rat(-1, 1), Zero, Rat(1, 2), One, Rat(3, 1)}

ArraysOver(S) ==
    {Arr(s) : s \in UNION {[1..n -> {Num(r, TRUE) : r \in S}] : n \in 0..MaxLen}}

Arrays == ArraysOver(Freqs)

Motions ==
    UNION {{<<d, i, s, p>> : d \in {"d", "D"}, i \in {"i", "I"},
                             s \in {"s", "S"}, p \in {"p", "P"}},
           {<<v, e, l>> : v \in {"v", "V"}, e \in {"e", "E"}, l \in {"l", "L"}},
           {<<a, c, d>> : a \in {"a", "A"}, c \in {"c", "C"}, d \in {"c", "C"}},
           {<<>>, <<"B", "A", "D">>, <<"d", "i", "s">>, <<"v", "e", "l", "o">>,
            <<"a", "c", "c", " ">>}}

NoCall == [fn |-> "none"]

Returned(name, a, r, p) ==
    /\ pc' = "returned"
    /\ fn' = name
    /\ args' = a
    /\ ret' = r
    /\ prior' = p
    /\ UNCHANGED <<heap, th>>

ThisCall == [fn |-> fn, args |-> args, ret |-> ret]

Call_fc ==
    /\ pc = "idle"
    /\ \E np \in BOOLEAN, vs \in {One, Rat(2, 1)},
          s \in {Rat(-1, 1), One, Rat(3, 1)},
          mo \in {Zero, One, Rat(2, 1)}, c \in {fc_c_default, One} :
          LET a == [np |-> np, vs |-> Num(vs, np), sd |-> Num(s, np),
                    mo |-> Num(mo, np), c |-> Num(c, np)]
          IN  Returned("fc", a, fc(a.vs, a.sd, a.mo, a.c), NoCall)

Call_sd ==
    /\ pc = "idle"
    /\ \E np \in BOOLEAN, f0 \in {Zero, One, Rat(2, 1)},
          mo \in {Zero, One, Rat(2, 1)}, vs \in {Zero, One, Rat(2, 1)},
          k \in {Zero, sd_k_default, Rat(1, 2)} :
          LET a == [np |-> np, fc |-> Num(f0, np), mo |-> Num(mo, np),
                    vs |-> Num(vs, np), k |-> Num(k, np)]
          IN  Returned("sd", a, sd(a.fc, a.mo, a.vs, a.k), NoCall)

\* sd applied to the corner frequency fc returned, same mo and vs
Call_sd_of_fc ==
    /\ pc = "returned" /\ fn = "fc" /\ prior = NoCall
    /\ IsFin(ret)
    /\ \E k \in {sd_k_default, Rat(1, 2)} :
          LET a == [np |-> args.np, fc |-> ret, mo |-> args.mo,
                    vs |-> args.vs, k |-> Num(k, args.np)]
          IN  Returned("sd", a, sd(a.fc, a.mo, a.vs, a.k), ThisCall)

Call_mo_from_mw ==
    /\ pc = "idle"
    /\ \E np \in BOOLEAN, m \in {Rat(-2, 1), Zero, Rat(6, 1), Rat(13, 2)},
          c \in {Zero, mw_c_default, Rat(107, 10)} :
          LET a == [np |-> np, mw |-> Num(m, np), c |-> Num(c, np)]
          IN  Returned("mo_from_mw", a, mo_from_mw(a.mw, a.c), NoCall)

Call_mw ==
    /\ pc = "idle"
    /\ \E np \in BOOLEAN,
          mo \in {Rat(-1, 1), Zero, One, Rat(5, 1), Rat(1000, 1)},
          c \in {Zero, mw_c_default, Rat(107, 10)} :
          LET a == [np |-> np, mo |-> Num(mo, np), c |-> Num(c, np)]
          IN  Returned("mw", a, mw(a.mo, a.c), NoCall)

\* mw applied to the moment mo_from_mw returned, same c
Call_mw_of_mo ==
    /\ pc = "returned" /\ fn = "mo_from_mw" /\ prior = NoCall
    /\ IsFin(ret)
    /\ LET a == [np |-> args.np, mo |-> ret, c |-> args.c]
       IN  Returned("mw", a, mw(a.mo, a.c), ThisCall)

Call_moment_scaling ==
    /\ pc = "idle"
    /\ \E np \in BOOLEAN, vs \in {One, Rat(2, 1)}, rho \in {One, Rat(3, 1)},
          ro \in {One, Rat(2, 1)}, fs \in {Zero, Rat(2, 1)},
          rp \in {Zero, Rat(11, 20)} :
          LET a == [np |-> np, vs |-> Num(vs, np), rho |-> Num(rho, np),
                    ro |-> Num(ro, np), fs |-> Num(fs, np), rp |-> Num(rp, np)]
          IN  Returned("moment_scaling", a,
                       moment_scaling(a.vs, a.rho, a.ro, a.fs, a.rp), NoCall)

Call_motion_factor ==
    /\ pc = "idle"
    /\ \E f \in Arrays, motion \in Motions :
          LET a == [f |-> f, motion |-> motion]
          IN  Returned("motion_factor", a, motion_factor(a.f, a.motion), NoCall)

Call_source_scf ==
    /\ pc = "idle"
    /\ \E np \in BOOLEAN, f \in Arrays, llpsp \in {Zero, Rat(9, 1)},
          f0 \in {Rat(-1, 1), Zero, One, Rat(2, 1)},
          gam \in {Rat(-1, 1), Zero, Rat(1, 2), One, Rat(2, 1)},
          n \in {Rat(-2, 1), Rat(2, 1), Rat(4, 1)} :
          LET a == [np |-> np, f |-> f, llpsp |-> Num(llpsp, np),
                    fc |-> Num(f0, np), gam |-> Num(gam, np), n |-> Num(n, np)]
          IN  Returned("source_scf", a,
                       source_scf(a.f, a.llpsp, a.fc, a.gam, a.n), NoCall)

Call_f_idep_attenutation ==
    /\ pc = "idle"
    /\ \E np \in BOOLEAN, f \in Arrays, Q \in {Zero, One, Rat(2, 1)},
          R \in {Zero, Rat(3, 1)}, b \in {Rat(-1, 1), Zero, One, Rat(2, 1)} :
          LET a == [np |-> np, f |-> f, Q |-> Num(Q, np), R |-> Num(R, np),
                    b |-> Num(b, np)]
          IN  Returned("f_idep_attenutation", a,
                       f_idep_attenutation(a.f, a.Q, a.R, a.b), NoCall)

Call_f_dep_attenuation ==
    /\ pc = "idle"
    /\ \E np \in BOOLEAN, f \in Arrays,
          a0 \in {Rat(-1, 10), Zero, Rat(1, 2), One, Rat(2, 1)},
          Q \in {Zero, One, Rat(2, 1)}, R \in {Zero, Rat(3, 1)},
          b \in {Rat(-1, 1), Zero, One, Rat(2, 1)} :
          LET a == [np |-> np, f |-> f, a |-> Num(a0, np), Q |-> Num(Q, np),
                    R |-> Num(R, np), b |-> Num(b, np)]
          IN  Returned("f_dep_attenuation", a,
                       f_dep_attenuation(a.f, a.a, a.Q, a.R, a.b), NoCall)

\* f_dep_attenuation at a = 0 on the arguments f_idep_attenutation was given
Call_f_dep_at_zero ==
    /\ pc = "returned" /\ fn = "f_idep_attenutation" /\ prior = NoCall
    /\ LET a == [np |-> args.np, f |-> args.f, a |-> Num(Zero, args.np),
                 Q |-> args.Q, R |-> args.R, b |-> args.b]
       IN  Returned("f_dep_attenuation", a,
                    f_dep_attenuation(a.f, a.a, a.Q, a.R, a.b), ThisCall)

Call_single_geospreading ==
    /\ pc = "idle"
    /\ \E np \in BOOLEAN, p \in {Zero, One, Rat(2, 1)} :
          \E R \in {Num(r, np) : r \in {Rat(-1, 1), Zero, One, Rat(3, 1), Ten}}
                   \cup ArraysOver({Rat(-1, 1), Zero, One, Ten}) :
             LET a == [np |-> np, R |-> R, p |-> Num(p, np)]
             IN  Returned("single_geospreading", a,
                          single_geospreading(a.R, a.p), NoCall)

Init ==
    /\ pc = "idle"
    /\ fn = "none"
    /\ args = None
    /\ ret = None
    /\ prior = NoCall
    /\ heap = None
    /\ th = None

Next ==
    \/ Call_fc
    \/ Call_sd
    \/ Call_sd_of_fc
    \/ Call_mo_from_mw
    \/ Call_mw
    \/ Call_mw_of_mo
    \/ Call_moment_scaling
    \/ Call_motion_factor
    \/ Call_source_scf
    \/ Call_f_idep_attenutation
    \/ Call_f_dep_attenuation
    \/ Call_f_dep_at_zero
    \/ Call_single_geospreading

Spec == Init /\ [][Next]_vars

---------------------------------------------------------------------------
(* Concurrent callers.  Two threads call the library on one shared         *)
(* frequency array, the object heap["f"].  A call binds its arguments,     *)
(* evaluates the function's return expression (its one read of f) into the *)
(* object the expression allocates, and returns that object; the steps of  *)
(* the two threads interleave freely.                                      *)

Threads == {"t1", "t2"}

Slots == {"f"} \cup Threads

\* the result written into the argument array (f *= ..., out=f)
OutSlotInPlace(t) == "f"

\* Every return expression builds its result with binary operators and
\* ufunc calls without out=: the result is an object of the call's own.
OutSlot(t) == t

\* the function named name applied to the array f and the scalars a
Apply(name, f, a) ==
    CASE name = "fc" -> fc(a.vs, a.sd, a.mo, a.c)
      [] name = "sd" -> sd(a.fc, a.mo, a.vs, a.k)
      [] name = "mo_from_mw" -> mo_from_mw(a.mw, a.c)
      [] name = "mw" -> mw(a.mo, a.c)
      [] name = "moment_scaling" -> moment_scaling(a.vs, a.rho, a.ro, a.fs, a.rp)
      [] name = "motion_factor" -> motion_factor(f, a.motion)
      [] name = "source_scf" -> source_scf(f, a.llpsp, a.fc, a.gam, a.n)
      [] name = "f_idep_attenutation" -> f_idep_attenutation(f, a.Q, a.R, a.b)
      [] name = "f_dep_attenuation" -> f_dep_attenuation(f, a.a, a.Q, a.R, a.b)
      [] name = "single_geospreading" -> single_geospreading(f, a.p)

IdleThread ==
    [pc |-> "idle", fn |-> "none", args |-> None, seen |-> None, ret |-> None]

Bind(t, name, a) ==
    /\ th' = [th EXCEPT ![t] = [pc |-> "called", fn |-> name, args |-> a,
                                seen |-> heap["f"], ret |-> None]]
    /\ UNCHANGED <<pc, fn, args, ret, prior, heap>>

Invoke(t) ==
    /\ th[t].pc = "idle"
    /\ \/ Bind(t, "fc", [vs |-> Py(2, 1), sd |-> Py(3, 1), mo |-> Py(2, 1),
                         c |-> Num(fc_c_default, FALSE)])
       \/ Bind(t, "sd", [fc |-> Py(1, 1), mo |-> Py(2, 1), vs |-> Py(2, 1),
                         k |-> Num(sd_k_default, FALSE)])
       \/ Bind(t, "mo_from_mw", [mw |-> Py(6, 1), c |-> Num(mw_c_default, FALSE)])
       \/ Bind(t, "mw", [mo |-> Py(1000, 1), c |-> Num(mw_c_default, FALSE)])
       \/ Bind(t, "moment_scaling", [vs |-> Py(2, 1), rho |-> Py(3, 1),
                                     ro |-> Py(1, 1), fs |-> Py(2, 1),
                                     rp |-> Py(11, 20)])
       \/ \E m \in {disp, vel, <<"A", "C", "C">>, <<"B", "A", "D">>} :
             Bind(t, "motion_factor", [motion |-> m])
       \/ \E gam \in {One, Rat(2, 1)} :
             Bind(t, "source_scf", [llpsp |-> Py(9, 1), fc |-> Py(1, 1),
                                    gam |-> Num(gam, FALSE), n |-> Py(2, 1)])
       \/ Bind(t, "f_idep_attenutation", [Q |-> Py(2, 1), R |-> Py(3, 1),
                                          b |-> Py(2, 1)])
       \/ \E a0 \in {Zero, Rat(1, 2), One} :
             Bind(t, "f_dep_attenuation", [a |-> Num(a0, FALSE), Q |-> Py(2, 1),
                                           R |-> Py(3, 1), b |-> Py(2, 1)])
       \/ Bind(t, "single_geospreading", [p |-> Py(1, 1)])

Eval(t) ==
    /\ th[t].pc = "called"
    /\ heap' = [heap EXCEPT ![OutSlot(t)] = Apply(th[t].fn, heap["f"], th[t].args)]
    /\ th' = [th EXCEPT ![t].pc = "evaluated"]
    /\ UNCHANGED <<pc, fn, args, ret, prior>>

Return(t) ==
    /\ th[t].pc = "evaluated"
    /\ th' = [th EXCEPT ![t].pc = "done", ![t].ret = heap[OutSlot(t)]]
    /\ UNCHANGED <<pc, fn, args, ret, prior, heap>>

ConcArrays == ArraysOver({Zero, Rat(1, 2), Rat(3, 1)})

InitConc ==
    /\ pc = "idle"
    /\ fn = "none"
    /\ args = None
    /\ ret = None
    /\ prior = NoCall
    /\ \E f \in ConcArrays : heap = [s \in Slots |-> IF s = "f" THEN f ELSE None]
    /\ th = [t \in Threads |-> IdleThread]

NextConc == \E t \in Threads : Invoke(t) \/ Eval(t) \/ Return(t)

SpecConc == InitConc /\ [][NextConc]_vars

---------------------------------------------------------------------------
(* Properties.                                                             *)

ZeroDivision == Exc("ZeroDivisionError", "float division by zero")

UpperChar(ch) ==
    CASE ch = "a" -> "A" [] ch = "c" -> "C" [] ch = "d" -> "D"
      [] ch = "e" -> "E" [] ch = "i" -> "I" [] ch = "l" -> "L"
      [] ch = "p" -> "P" [] ch = "s" -> "S" [] ch = "v" -> "V"

\* m is the word w in some mix of upper and lower case
Variant(m, w) ==
    /\ Len(m) = Len(w)
    /\ \A i \in DOMAIN w : m[i] \in {w[i], UpperChar(w[i])}

Recognised(m) == \E w \in {disp, vel, acc} : Variant(m, w)

\* every number of the result is an infinity or a NaN
NonFiniteResult(r) ==
    IF IsArr(r) THEN \A i \in DOMAIN r.v : IsNonFinite(r.v[i])
    ELSE IsNonFinite(r)

IsPositive(v) == v.k = "fin" /\ v.c.n > 0

Called(name) == pc = "returned" /\ fn = name

\* C1: motion_factor called with a motion string that is, in any mix of
\* case, none of disp, vel, acc raises ValueError with the message
\* "Motion must be ['disp', 'vel', 'acc']", whatever f is.
C1_UnknownMotionRaises ==
    (Called("motion_factor") /\ ~Recognised(args.motion))
        => ret = Exc("ValueError", <<"Motion must be ", <<disp, vel, acc>>>>)

C1_Witness ==
    /\ Called("motion_factor")
    /\ args.motion = <<"B", "A", "D">>
    /\ Len(args.f.v) = 2
    /\ IsExc(ret)

\* the argument a of the call lies in [0, 1)
C2_InRange == args.a.k = "fin" /\ 0 <= args.a.c.n /\ args.a.c.n < args.a.c.d

\* C2 as stated: f_dep_attenuation raises the assertion for every a outside
\* 0 <= a < 1, and for every a in [0, 1) a value is computed.
C2_Original ==
    Called("f_dep_attenuation")
        => IF C2_InRange
           THEN IsArr(ret)
           ELSE IsExc(ret) /\ ret.exc = "AssertionError"

\* C2 amended: f_dep_attenuation raises AssertionError for every a outside
\* 0 <= a < 1, whatever f, Q, R, b are (so before any arithmetic); for a in
\* [0, 1) the check passes and the arithmetic is evaluated: it returns an
\* array as long as f, except that builtin-float R / Q with Q = 0 raises
\* ZeroDivisionError.
C2_PreconditionFirst ==
    Called("f_dep_attenuation")
        => IF ~C2_InRange
           THEN ret = Exc("AssertionError", "a must be in range 0 <= a < 1.")
           ELSE IF IsZero(args.Q) /\ ~args.np
           THEN ret = ZeroDivision
           ELSE IsArr(ret) /\ Len(ret.v) = Len(args.f.v)

C2_Witness ==
    /\ Called("f_dep_attenuation")
    /\ args.a = Py(1, 1)
    /\ IsZero(args.Q)
    /\ Len(args.f.v) = 2
    /\ IsExc(ret) /\ ret.exc = "AssertionError"

\* the cases of C3: a zero divisor, a non-positive argument to log10, a
\* negative base under the power 1/3
C3_ZeroDivisor ==
    \/ Called("fc") /\ IsZero(args.mo)
    \/ Called("sd") /\ (IsZero(args.vs) \/ IsZero(args.k))
    \/ Called("source_scf") /\ (IsZero(args.fc) \/ IsZero(args.gam))
    \/ Called("f_idep_attenutation") /\ (IsZero(args.Q) \/ IsZero(args.b))

C3_NegativeBase ==
    Called("fc") /\ ~IsZero(args.mo) /\ Sign(args.sd) * Sign(args.mo) < 0

C3_NonPositiveLog ==
    \/ Called("mw") /\ prior = NoCall /\ Sign(args.mo) <= 0
    \/ Called("single_geospreading") /\ ~IsArr(args.R) /\ Sign(args.R) <= 0

\* C3 as stated: in each of these cases the call returns a non-finite value
\* rather than raise.
C3_Original ==
    (C3_ZeroDivisor \/ C3_NegativeBase \/ C3_NonPositiveLog)
        => ~IsExc(ret) /\ NonFiniteResult(ret)

\* C3 amended: a zero divisor in a division of two builtin Python floats (fc
\* with mo = 0, sd with vs = 0 or k = 0, source_scf with gam = 0) raises
\* ZeroDivisionError, and returns a non-finite value when the arguments are
\* numpy.float64; a zero divisor under a NumPy array (source_scf with fc = 0
\* and gam*n > 0, f_idep_attenutation with Q = 0 or b = 0) makes every
\* element non-finite; log10 of a non-positive number (mw with mo <= 0,
\* single_geospreading with R <= 0) returns a non-finite value; fc with
\* sd/mo < 0 returns a complex number for builtin floats and NaN for
\* numpy.float64.
C3_DomainErrors ==
    /\ (Called("fc") /\ IsZero(args.mo))
          => IF args.np THEN NonFiniteResult(ret) ELSE ret = ZeroDivision
    /\ (Called("sd") /\ (IsZero(args.vs) \/ IsZero(args.k)))
          => IF args.np THEN NonFiniteResult(ret) ELSE ret = ZeroDivision
    /\ (Called("source_scf") /\ IsZero(args.gam))
          => IF args.np THEN IsArr(ret) /\ NonFiniteResult(ret)
             ELSE ret = ZeroDivision
    /\ (Called("source_scf") /\ IsZero(args.fc)
            /\ Sign(args.gam) * Sign(args.n) > 0)
          => IsArr(ret) /\ NonFiniteResult(ret)
    /\ (Called("f_idep_attenutation") /\ (IsZero(args.Q) \/ IsZero(args.b)))
          => IsArr(ret) /\ NonFiniteResult(ret)
    /\ C3_NonPositiveLog => NonFiniteResult(ret)
    /\ (Called("single_geospreading") /\ IsArr(args.R))
          => /\ IsArr(ret)
             /\ \A i \in DOMAIN args.R.v :
                   Sign(args.R.v[i]) <= 0 => IsNonFinite(ret.v[i])
    /\ C3_NegativeBase => IF args.np THEN ret.k = "nan" ELSE ret = Cplx

C3_Witness ==
    /\ Called("fc")
    /\ IsZero(args.mo)
    /\ ~args.np
    /\ ret = ZeroDivision

\* C4: mw(mo_from_mw(x, c), c) = x for every magnitude x and every unit
\* constant c.
C4_RoundTrip ==
    (Called("mw") /\ prior.fn = "mo_from_mw")
        => Strip(ret) = Strip(prior.args.mw)

\* C5: for every upper/lower-case variant of 'disp' motion_factor returns
\* the scalar 0, for every variant of 'vel' log10(2*pi*f), for every variant
\* of 'acc' log10((2*pi*f)^2); it never returns None for these.
C5_CaseInsensitive ==
    Called("motion_factor") =>
        /\ Variant(args.motion, disp) => ret = Py(0, 1)
        /\ Variant(args.motion, vel)
              => ret = Log10(Mul(Mul(Py(2, 1), Pi), args.f))
        /\ Variant(args.motion, acc)
              => ret = Log10(Pow(Mul(Mul(Py(2, 1), Pi), args.f), Py(2, 1)))
        /\ Recognised(args.motion) => ret # None /\ ~IsExc(ret)

C5_Witness ==
    /\ Called("motion_factor")
    /\ args.motion = <<"V", "e", "L">>
    /\ Len(args.f.v) = 2
    /\ IsArr(ret)
    /\ ret.v[1] # ret.v[2]

C7_NonIncreasing ==
    (Called("source_scf") /\ IsPositive(args.fc) /\ IsPositive(args.gam)
        /\ IsPositive(args.n))
        => /\ IsArr(ret)
           /\ \A i, j \in DOMAIN args.f.v :
                 (Sign(args.f.v[i]) >= 0 /\ Le(args.f.v[i], args.f.v[j]))
                     => Le(ret.v[j], ret.v[i])
           /\ \A i \in DOMAIN args.f.v :
                 Sign(args.f.v[i]) >= 0 => Le(ret.v[i], args.llpsp)

C7_Witness ==
    /\ Called("source_scf")
    /\ IsPositive(args.fc) /\ IsPositive(args.gam) /\ IsPositive(args.n)
    /\ Len(args.f.v) = 2
    /\ IsPositive(args.f.v[1])
    /\ ~Le(args.f.v[2], args.f.v[1])
    /\ ~Le(ret.v[1], ret.v[2])

\* C8: for fc # 0 and gam*n > 0, source_scf at a frequency 0 is llpsp.
C8_Plateau ==
    (Called("source_scf") /\ ~IsZero(args.fc)
        /\ Sign(args.gam) * Sign(args.n) > 0)
        => /\ IsArr(ret)
           /\ \A i \in DOMAIN args.f.v :
                 IsZero(args.f.v[i]) => Strip(ret.v[i]) = Strip(args.llpsp)

C8_Witness ==
    /\ Called("source_scf")
    /\ args.fc = Py(1, 1) /\ args.gam = Py(1, 1) /\ args.n = Py(2, 1)
    /\ args.llpsp = Py(9, 1)
    /\ Len(args.f.v) = 2
    /\ IsZero(args.f.v[1]) /\ IsPositive(args.f.v[2])
    /\ Strip(ret.v[1]) = Py(9, 1)
    /\ Strip(ret.v[2]) # Py(9, 1)

\* the two attenuation laws called on the same f, Q, R, b, Q and b not 0
C9_SameArguments ==
    /\ Called("f_dep_attenuation")
    /\ prior.fn = "f_idep_attenutation"
    /\ ~IsZero(args.Q)
    /\ ~IsZero(args.b)

C9_BSquaredIsOne == SMul(args.b, args.b) = Num(One, args.np)

\* C9 as stated: f_dep_attenuation at a = 0 is b^2 times f_idep_attenutation,
\* and at every frequency the two results coincide exactly when b^2 = 1.
C9_Original ==
    C9_SameArguments
        => /\ Strip(ret) = Strip(Mul(Mul(args.b, args.b), prior.ret))
           /\ \A i \in DOMAIN args.f.v :
                 (ret.v[i] = prior.ret.v[i]) <=> C9_BSquaredIsOne

\* C9 amended: f_dep_attenuation at a = 0 is b^2 times f_idep_attenutation;
\* the two results coincide whenever b^2 = 1, and at a frequency f # 0 with
\* R # 0 only then (at f = 0 or with R = 0 both are 0 for every b).
C9_ScaledByBSquared ==
    C9_SameArguments
        => /\ Strip(ret) = Strip(Mul(Mul(args.b, args.b), prior.ret))
           /\ C9_BSquaredIsOne => ret = prior.ret
           /\ \A i \in DOMAIN args.f.v :
                 (~IsZero(args.R) /\ ~IsZero(args.f.v[i])
                     /\ ret.v[i] = prior.ret.v[i])
                    => C9_BSquaredIsOne

C9_Witness ==
    /\ C9_SameArguments
    /\ args.b = Py(2, 1)
    /\ ~IsZero(args.R)
    /\ Len(args.f.v) = 2
    /\ IsPositive(args.f.v[1])
    /\ ret.v[1] # prior.ret.v[1]
    /\ ret.v[1] = SMul(Py(4, 1), prior.ret.v[1])

\* C10: for positive vs, mo and stress drop s, sd(fc(vs, s, mo, c), mo, vs, k)
\* is (7/16)*(c/k)^3 * s, whatever vs and mo are, and with the defaults
\* c = 0.49 and k = 0.37 it is not s.
C10_NotInverses ==
    (Called("sd") /\ prior.fn = "fc" /\ IsPositive(prior.args.vs)
        /\ IsPositive(prior.args.mo) /\ IsPositive(prior.args.sd))
        => /\ Strip(ret) =
                 Num(RMul(RMul(Rat(7, 16),
                               RPow(RDiv(prior.args.c.c, args.k.c), 3)),
                          prior.args.sd.c), FALSE)
           /\ (prior.args.c.c = fc_c_default /\ args.k.c = sd_k_default)
                 => Strip(ret) # Strip(prior.args.sd)

C10_Witness ==
    /\ Called("sd") /\ prior.fn = "fc"
    /\ prior.args.vs = Py(2, 1) /\ prior.args.mo = Py(2, 1)
    /\ prior.args.sd = Py(3, 1)
    /\ prior.args.c = Num(fc_c_default, FALSE)
    /\ args.k = Num(sd_k_default, FALSE)
    /\ ret = Py(2470629, 810448)

===========================================================================
